---- MODULE Spec2Model ----
(***************************************************************************)
(* Relay side of anonchatsgs (src/server.js): the connection registry      *)
(* `clients`, the one-place matching slot `waitingUser`, and the handlers  *)
(* of the WebSocket events connection / message / close.                   *)
(*                                                                         *)
(* The relay is a single-threaded event loop: every handler runs to        *)
(* completion, so each handler is one action.                              *)
(***************************************************************************)
EXTENDS Integers, Sequences, FiniteSets, TLC

\* Number of WebSocket objects the server sees during a run.  Every socket is
\* a fresh object (never reused after its close event); socket k is the k-th
\* one handed to the "connection" handler.
NumConns == 3

Conns == 1..NumConns

\* JavaScript null (partner: null, waitingUser = null).
NULL == 0

\* const STATES (server.js 53-58)
STATES == [IDLE |-> "idle", SEARCHING |-> "searching",
           CONNECTING |-> "connecting", CONNECTED |-> "connected"]

\* ws readyState values.  A socket the server has not accepted yet is
\* "CONNECTING"; an accepted one is "OPEN" until its closing handshake starts.
ReadyStates == {"CONNECTING", "OPEN", "CLOSING", "CLOSED"}

\* data.name of a join frame: "" stands for every falsy value (missing, "", null).
NameInputs == {"", "Ann"}

\* data.signal.type of a signal frame; the relay never looks at it.
SignalInputs == {"offer", "candidate"}

VARIABLES
    clients,      \* Map ws -> {id, name, state, partner}      (server.js 60)
    waitingUser,  \* the MatchSlot: a ws or null                (server.js 61)
    readyState,   \* ws.readyState of every socket
    sent,         \* frames the last handler passed to ws.send, in order
    last          \* the event the last handler processed

vars == <<clients, waitingUser, readyState, sent, last>>

VARIABLES
    app,   \* per page: the fields of its ChatApplication and its sockets
    up,    \* per socket: frames on their way from the page to the relay
    down   \* per socket: frames on their way from the relay to the page

\* The variables of the pages and of the network between pages and relay.
cvars == <<app, up, down>>

allvars == <<clients, waitingUser, readyState, sent, last, app, up, down>>

\* ------------------------------------------------------------------ helpers

\* The record handed to `last`: which event, on which socket, with which
\* argument, which path of the handler ran, and what the handler found when it
\* started: the socket's own entry (state, partner) and the slot with its
\* occupant's state.
Event(op, ws, arg, branch) ==
    [op |-> op, ws |-> ws, arg |-> arg, branch |-> branch,
     state |-> IF ws \in DOMAIN clients THEN clients[ws].state ELSE "none",
     partner |-> IF ws \in DOMAIN clients THEN clients[ws].partner ELSE NULL,
     slot |-> waitingUser,
     slotState |-> IF waitingUser \in DOMAIN clients
                     THEN clients[waitingUser].state ELSE "none"]

\* Mutation of sendJSON: the readyState test is dropped.
sendJSON_unguarded(ws, payload) == <<[to |-> ws, msg |-> payload]>>

\* function sendJSON(ws, payload) (server.js 172-176): the frames it sends.
sendJSON(ws, payload) ==
    IF readyState[ws] = "OPEN" THEN <<[to |-> ws, msg |-> payload]>> ELSE <<>>

\* clients.delete(ws) (server.js 166)
Delete(reg, ws) == [x \in (DOMAIN reg) \ {ws} |-> reg[x]]

Init ==
    /\ clients = [x \in {} |-> 0]
    /\ waitingUser = NULL
    /\ readyState = [ws \in Conns |-> "CONNECTING"]
    /\ sent = <<>>
    /\ last = [op |-> "init", ws |-> NULL, arg |-> "", branch |-> "none",
               state |-> "none", partner |-> NULL, slot |-> NULL, slotState |-> "none"]

\* ------------------------------------------------- wss.on("connection", ...)

\* ALLOWED_ORIGINS.includes(origin) is the input `allowed` (server.js 64-70).
\* A refused socket is closed at once and gets neither a registry entry nor
\* handlers; an accepted one is registered Idle/Anonymous (server.js 72-80).
Connection(ws, allowed) ==
    /\ readyState[ws] = "CONNECTING"
    /\ \A k \in Conns : k < ws => readyState[k] # "CONNECTING"
    /\ IF ~allowed
         THEN /\ readyState' = [readyState EXCEPT ![ws] = "CLOSING"]
              /\ UNCHANGED clients
              /\ last' = Event("connection", ws, "", "refused")
         ELSE /\ readyState' = [readyState EXCEPT ![ws] = "OPEN"]
              /\ clients' = [x \in (DOMAIN clients) \cup {ws} |->
                               IF x = ws
                                 THEN [id |-> ws, name |-> "Anonymous",
                                       state |-> STATES.IDLE, partner |-> NULL]
                                 ELSE clients[x]]
              /\ last' = Event("connection", ws, "", "accepted")
    /\ sent' = <<>>
    /\ UNCHANGED waitingUser

\* ------------------------------------------------------ matching functions

\* client.name = name || "Stranger" (server.js 110)
RecordedName(name) == IF name = "" THEN "Stranger" ELSE name

\* Mutation of SlotEligible: the self test `waitingUser !== ws` is dropped.
SlotEligible_noSelfTest(ws) == waitingUser # NULL

\* if (waitingUser && waitingUser !== ws) (server.js 113)
SlotEligible(ws) == waitingUser # NULL /\ waitingUser # ws

\* Mutation of IsStale: no slot occupant is taken as a live candidate.
IsStale_always(reg, partner) == TRUE

\* Mutation of IsStale: every slot occupant is taken as a live candidate.
IsStale_never(reg, partner) == FALSE

\* if (!partnerData || partnerData.state !== STATES.SEARCHING) (server.js 115-117)
IsStale(reg, partner) ==
    \/ partner \notin DOMAIN reg
    \/ reg[partner].state # STATES.SEARCHING

\* Mutation of Pair: the waiting side keeps its Searching state.
Pair_waiterNotUpdated(reg, ws, partner) ==
    [reg EXCEPT ![ws].state = STATES.CONNECTING, ![ws].partner = partner,
                ![partner].partner = ws]

\* The four assignments of a pairing (server.js 124-128).
Pair(reg, ws, partner) ==
    [reg EXCEPT ![ws].state = STATES.CONNECTING, ![ws].partner = partner,
                ![partner].state = STATES.CONNECTING, ![partner].partner = ws]

\* The `matched` payload (server.js 131-133, 137-139).
Matched(initiator, partnerName) ==
    [type |-> "matched", initiator |-> initiator, partnerName |-> partnerName]

\* Mutation of MatchedToJoiner: the arriving side is told initiator: false.
MatchedToJoiner_notInitiator(partnerName) == Matched(FALSE, partnerName)

\* What the arriving connection is sent (server.js 130-134).
MatchedToJoiner(partnerName) == Matched(TRUE, partnerName)

\* Mutation of MatchedToWaiter: the waiting side is told initiator: true.
MatchedToWaiter_initiator(partnerName) == Matched(TRUE, partnerName)

\* What the previously waiting connection is sent (server.js 136-140).
MatchedToWaiter(partnerName) == Matched(FALSE, partnerName)

\* Mutation of AlreadySearching: the duplicate-join guard is dropped.
AlreadySearching_never(ws) == FALSE

\* if (client.state === STATES.SEARCHING) return; (server.js 108)
AlreadySearching(ws) == clients[ws].state = STATES.SEARCHING

\* function handleJoin(ws, client, name) (server.js 107-144)
handleJoin(ws, name) ==
    IF AlreadySearching(ws)
      THEN /\ UNCHANGED <<clients, waitingUser>>
           /\ sent' = <<>>
           /\ last' = Event("join", ws, name, "noop")
      ELSE LET reg == [clients EXCEPT ![ws].name = RecordedName(name),
                                      ![ws].state = STATES.SEARCHING]
               partner == waitingUser
           IN IF SlotEligible(ws)
                THEN IF IsStale(reg, partner)
                       THEN /\ waitingUser' = ws
                            /\ clients' = reg
                            /\ sent' = <<>>
                            /\ last' = Event("join", ws, name, "stale")
                       ELSE /\ waitingUser' = NULL
                            /\ clients' = Pair(reg, ws, partner)
                            /\ sent' = sendJSON(ws, MatchedToJoiner(reg[partner].name))
                                       \o sendJSON(partner, MatchedToWaiter(reg[ws].name))
                            /\ last' = Event("join", ws, name, "paired")
                ELSE /\ waitingUser' = ws
                     /\ clients' = reg
                     /\ sent' = <<>>
                     /\ last' = Event("join", ws, name, "wait")

\* Mutation of SignalTarget: the envelope is echoed to its sender.
SignalTarget_sender(ws) == ws

\* client.partner, the only addressee of a relayed envelope (server.js 147-148)
SignalTarget(ws) == clients[ws].partner

\* function handleSignal(ws, client, data) (server.js 146-150)
handleSignal(ws, data) ==
    LET partner == SignalTarget(ws)
    IN /\ sent' = IF partner # NULL /\ readyState[partner] = "OPEN"
                    THEN sendJSON(partner, data)
                    ELSE <<>>
       /\ last' = Event("signal", ws, data.signal.type,
                        IF partner # NULL /\ readyState[partner] = "OPEN"
                          THEN "forwarded" ELSE "dropped")
       /\ UNCHANGED <<clients, waitingUser>>

\* function handleDisconnect(ws) (server.js 152-167)
handleDisconnect(ws) ==
    IF ws \notin DOMAIN clients
      THEN /\ UNCHANGED <<clients, waitingUser>>
           /\ sent' = <<>>
           /\ last' = Event("close", ws, "", "unregistered")
      ELSE LET partner == clients[ws].partner
               linked == partner # NULL /\ partner \in DOMAIN clients
           IN /\ waitingUser' = IF waitingUser = ws THEN NULL ELSE waitingUser
              /\ sent' = IF linked
                           THEN sendJSON(partner, [type |-> "partner-left"])
                           ELSE <<>>
              /\ clients' = Delete(IF linked
                                     THEN [clients EXCEPT ![partner].partner = NULL]
                                     ELSE clients, ws)
              /\ last' = Event("close", ws, "",
                               IF partner # NULL THEN "paired" ELSE "single")

\* ---------------------------------------------------- ws.on("message", ...)

\* A frame reaches the handler only while the socket is open and its handlers
\* are attached (server.js 84).  The registry lookup of line 87-88 follows;
\* an open socket with handlers always has its entry.
Receiving(ws) == readyState[ws] = "OPEN" /\ ws \in DOMAIN clients

\* {"type":"join","name":...}  (server.js 90)
MsgJoin(ws, name) ==
    /\ Receiving(ws)
    /\ handleJoin(ws, name)
    /\ UNCHANGED readyState

\* {"type":"signal","signal":{...}}: the parsed frame is passed on whole
\* (server.js 91).
MsgSignal(ws, sig) ==
    /\ Receiving(ws)
    /\ handleSignal(ws, [type |-> "signal", signal |-> [type |-> sig]])
    /\ UNCHANGED readyState

\* {"type":"connected"} (server.js 92): the state is set whatever it was.
MsgConnected(ws) ==
    /\ Receiving(ws)
    /\ clients' = [clients EXCEPT ![ws].state = STATES.CONNECTED]
    /\ sent' = <<>>
    /\ last' = Event("connected", ws, "", "set")
    /\ UNCHANGED <<waitingUser, readyState>>

\* A parsed frame of any other type (ping, pong, typing, pause, resume, ...)
\* matches no branch of server.js 90-92: nothing happens.
MsgOther(ws) ==
    /\ Receiving(ws)
    /\ sent' = <<>>
    /\ last' = Event("other", ws, "", "ignored")
    /\ UNCHANGED <<clients, waitingUser, readyState>>

\* The catch block without its reply
InvalidReply_none(ws) == <<>>

\* ws.send(JSON.stringify({ type: "error", message: "Invalid payload" }))
\* (server.js 94)
InvalidReply(ws) ==
    <<[to |-> ws, msg |-> [type |-> "error", message |-> "Invalid payload"]]>>

\* A frame JSON.parse rejects, or one that parses to null so that data.type
\* throws: the catch block replies (server.js 93-95).
MsgInvalid(ws) ==
    /\ Receiving(ws)
    /\ sent' = InvalidReply(ws)
    /\ last' = Event("invalid", ws, "", "error")
    /\ UNCHANGED <<clients, waitingUser, readyState>>

\* --------------------------------------------------------------- transport

\* The closing handshake of an open socket begins (the peer's close frame
\* arrived, or the TCP connection broke): readyState leaves OPEN before the
\* close event is dispatched.  This is the state the tests of server.js 147
\* and 173 look for.
TransportClosing(ws) ==
    /\ readyState[ws] = "OPEN"
    /\ readyState' = [readyState EXCEPT ![ws] = "CLOSING"]
    /\ sent' = <<>>
    /\ last' = Event("closing", ws, "", "none")
    /\ UNCHANGED <<clients, waitingUser>>

\* ws.on("close", () => handleDisconnect(ws)) (server.js 98).  A refused
\* socket has no handler; handleDisconnect finds no entry for it and does
\* nothing, which is the same outcome.
OnClose(ws) ==
    /\ readyState[ws] \in {"OPEN", "CLOSING"}
    /\ readyState' = [readyState EXCEPT ![ws] = "CLOSED"]
    /\ handleDisconnect(ws)

\* The relay on its own: the pages and the frames in transit stay as they are.
Next ==
    \/ \E ws \in Conns, allowed \in BOOLEAN : Connection(ws, allowed) /\ UNCHANGED cvars
    \/ \E ws \in Conns, name \in NameInputs : MsgJoin(ws, name) /\ UNCHANGED cvars
    \/ \E ws \in Conns, sig \in SignalInputs : MsgSignal(ws, sig) /\ UNCHANGED cvars
    \/ \E ws \in Conns : MsgConnected(ws) /\ UNCHANGED cvars
    \/ \E ws \in Conns : MsgOther(ws) /\ UNCHANGED cvars
    \/ \E ws \in Conns : MsgInvalid(ws) /\ UNCHANGED cvars
    \/ \E ws \in Conns : TransportClosing(ws) /\ UNCHANGED cvars
    \/ \E ws \in Conns : OnClose(ws) /\ UNCHANGED cvars

\* ==================================================================== client
\* Client side of anonchatsgs: class ChatApplication (src/Dockerfile 48-1295).
\* The page is single-threaded: every event listener and timer callback runs
\* to completion, so each one is one action.  The awaits of the WebRTC calls
\* (createOffer, setLocalDescription, setRemoteDescription) are taken as
\* completing inside the handler; their rejection is the input `rtcOk`.

\* Number of pages (ChatApplication instances) in a run.
NumApps == 2

Apps == 1..NumApps

\* The page the client-only specification follows.
TheApp == 1

\* WebSocket objects of one page that are tracked at a time: the current one
\* and closed ones whose close event is still due.
NumSocks == 2

Socks == 1..NumSocks

\* Pending one-shot retry timers of one kind that are tracked at a time.
MaxPending == 1

\* Longest messageQueue that is tracked.
MaxQueue == 1

\* The time that passes in one step of the clock, in ms.
TickMs == 30000

\* this.maxReconnectAttempts (Dockerfile 57)
maxReconnectAttempts == 5

\* Pending retry timers of initSocket's catch, and of handleReconnect's catch,
\* that are tracked at a time: each failed attempt arms one of either kind.
MaxBackoff == 3

\* Values of Math.random() * 1000 (Dockerfile 976), in whole ms.
Jitters == {0, 999}

Min(x, y) == IF x <= y THEN x ELSE y

\* const AppState (Dockerfile 38-45); the value of CHATTING is spelled as in
\* the source.
AppState == [CONNECTING |-> "connecting", CONNECTED |-> "connected",
             DISCONNECTED |-> "disconnected", SEARCHING |-> "searching",
             CHATTING |-> "chattng", ERROR |-> "error"]

\* RTCPeerConnection.iceConnectionState values the handlers distinguish.
IceStates == {"new", "connected", "disconnected", "failed"}

\* The states an iceconnectionstatechange event reports; "new" is where a
\* peer connection starts.
IceEvents == IceStates \ {"new"}

\* Frames the page sends (Dockerfile 396-400, 573-576 / 693-696, 647, 1027,
\* 1280, 1288).  The join frame's timestamp is not read by the relay.
Join(w) == [type |-> "join", name |-> IF w.started THEN "Ann" ELSE ""]
Signal(t) == [type |-> "signal", signal |-> [type |-> t]]
Plain(t) == [type |-> t]

\* Frames the relay of src/server.js sends to a page.
ServerFrames ==
    {[type |-> "matched", initiator |-> i, partnerName |-> "Ann"] : i \in BOOLEAN}
    \cup {Signal(t) : t \in {"offer", "answer", "candidate"}}
    \cup {Plain("partner-left")}
    \cup {[type |-> "error", message |-> "Invalid payload"]}

\* constructor (Dockerfile 48-66).  Beside the fields of the class the world
\* of a page holds its socket objects (socks), the pending anonymous timers
\* (closeRetry, errorRetry), the page's visibility and network flags, and
\* three history fields: reconnectSocket (the socket the latest
\* handleReconnect created), out (the frames the page passed to socket.send
\* in the latest step) and ev (the event the page handled in the latest
\* step, and whether it came from a socket that was not this.socket).
\* fatal tells that the latest step showed the toast 'Maximum reconnection
\* attempts reached' (Dockerfile 947), expired how many queued items the
\* latest step dropped for their age.
\* staleChannel tells that a data channel cleanupWebRTC closed has not
\* reported its close event yet; it is kept only where lateClose is set,
\* that is in the specification that delivers such events.
\* urlOk tells whether the page is configured with a URL that passes the
\* test of Dockerfile 359 and that the WebSocket constructor accepts
\* (window.ANONCHAT_WS_URL, 352-354); initRetry and backoffRetry count the
\* pending timers of Dockerfile 468 and 981.  random is what the next
\* Math.random() * 1000 yields, drew that the latest step consumed it, thrown
\* that initSocket threw in the handler that is running.  Further history:
\* delays (after how many ms the latest step scheduled a new connection
\* attempt), fault (the latest step handled an unclean close, an error or
\* the connection timeout of this.socket), surfaced (the toast of 947 was
\* shown since the last 'open' event) and backoff (the delay handleReconnect
\* computed last at each value of reconnectAttempts, NULL while none).
\* socks[s] is WebSocket.readyState as the page sees it; "none" is a socket
\* object that does not exist (not created yet, or closed with its close
\* event delivered), "FAILING" a socket whose error event has been delivered
\* and whose close event is due: the code's tests read it as they read
\* CLOSING.  dataChannel is RTCDataChannel.readyState, "none" for null.
NewApp ==
    [state |-> AppState.DISCONNECTED, socket |-> NULL,
     reconnectAttempts |-> 0, isReconnecting |-> FALSE,
     connectionTimeout |-> NULL, iceFailTimer |-> FALSE,
     closeRetry |-> 0, errorRetry |-> 0,
     peerConnection |-> FALSE, ice |-> "new", dataChannel |-> "none",
     messageQueue |-> <<>>, hidden |-> FALSE, offline |-> FALSE,
     started |-> FALSE,
     socks |-> [s \in Socks |-> "none"],
     reconnectSocket |-> NULL,
     out |-> <<>>, ev |-> [op |-> "none", stale |-> FALSE], fatal |-> FALSE,
     expired |-> 0,
     staleChannel |-> FALSE, lateClose |-> FALSE,
     urlOk |-> TRUE, initRetry |-> 0, backoffRetry |-> 0,
     random |-> 0, drew |-> FALSE, thrown |-> FALSE,
     delays |-> {}, fault |-> FALSE, surfaced |-> FALSE,
     backoff |-> [n \in 1..maxReconnectAttempts |-> NULL],
     ok |-> TRUE]

\* A socket object no page holds and the relay has never seen: the one the
\* next `new WebSocket` yields; NULL when all tracked ones are in use.
FreeSockets ==
    {s \in Socks : /\ readyState[s] = "CONNECTING"
                   /\ \A a \in Apps : app[a].socks[s] = "none"}

FreshSocket ==
    IF FreeSockets = {} THEN NULL
    ELSE CHOOSE s \in FreeSockets : \A t \in FreeSockets : s <= t

\* this.socket && this.socket.readyState === WebSocket.OPEN
SocketOpen(w) == w.socket # NULL /\ w.socks[w.socket] = "OPEN"

\* An entry of `out`: the frame passed to socket.send, and whether it was
\* replayed from the messageQueue, at which age.
Frame(s, message, replay, age) ==
    [sock |-> s, msg |-> message, replay |-> replay, age |-> age]

\* if (message.type !== 'ping' && message.type !== 'pong') with the test
\* left out
Buffered_all(message) == TRUE

\* if (message.type !== 'ping' && message.type !== 'pong') (Dockerfile 511)
Buffered(message) == message.type \notin {"ping", "pong"}

\* sendSocketMessage (Dockerfile 499-516).  A queued item keeps its enqueue
\* time; the model carries its age, Date.now() - item.timestamp, instead.
sendSocketMessage(w, message) ==
    IF SocketOpen(w)
    THEN [w EXCEPT !.out = Append(@, Frame(w.socket, message, FALSE, 0))]
    ELSE IF Buffered(message)
         THEN [w EXCEPT !.messageQueue = Append(@, [message |-> message, age |-> 0])]
         ELSE w

\* const maxAge (Dockerfile 794), in ms
maxAge == 30000

\* now - item.timestamp > maxAge (Dockerfile 797) with the test left out
TooOld_never(item) == FALSE

\* now - item.timestamp > maxAge (Dockerfile 797)
TooOld(item) == item.age > maxAge

\* processMessageQueue (Dockerfile 789-808).  The filter callback drops the
\* items that are too old and sends every other one; with the socket open
\* each send succeeds and the item is dropped, with it closed each item is
\* kept (the copies sendSocketMessage pushes meanwhile go to the array the
\* filter result replaces).  expired counts the items dropped for their age.
processMessageQueue(w) ==
    LET young == SelectSeq(w.messageQueue, LAMBDA item : ~TooOld(item))
        v     == [w EXCEPT !.expired = Len(w.messageQueue) - Len(young)]
    IN IF SocketOpen(w)
       THEN [v EXCEPT !.out = @ \o [i \in 1..Len(young) |->
                                       Frame(w.socket, young[i].message,
                                             TRUE, young[i].age)],
                      !.messageQueue = <<>>]
       ELSE [v EXCEPT !.messageQueue = young]

\* cleanupWebRTC (Dockerfile 1111-1123).  dataChannel.close() leaves the
\* channel's handlers in place; the close event of a channel that was not
\* closed yet is due from then on.
cleanupWebRTC(w) ==
    [w EXCEPT !.staleChannel =
                 @ \/ (w.lateClose /\ w.dataChannel \in {"connecting", "open"}),
              !.dataChannel = "none", !.peerConnection = FALSE,
              !.ice = "new", !.iceFailTimer = FALSE]

\* cleanupConnection (Dockerfile 1089-1109).  Assigning null to onclose,
\* onerror, onmessage and onopen removes no listener: initSocket registered
\* them with addEventListener, so the closed socket still reports its events.
cleanupConnection(w) ==
    LET v == cleanupWebRTC(w) IN
    IF v.socket = NULL
    THEN [v EXCEPT !.connectionTimeout = NULL]
    ELSE [v EXCEPT !.socks[v.socket] =
                       IF @ \in {"CONNECTING", "OPEN"} THEN "CLOSING"
                       ELSE IF @ = "CLOSED" THEN "none" ELSE @,
                   !.socket = NULL,
                   !.iceFailTimer = FALSE,
                   !.connectionTimeout = NULL]

\* The delay of initSocket's catch block (Dockerfile 467)
InitDelay(n) == Min(1000 * 2^n, 10000)

\* initSocket (Dockerfile 339-471): tear down, create socket s, arm its 10 s
\* connection timeout.  With a URL that is refused (359-361, 373-376) the
\* catch block of 452-471 runs instead and the caller sees the exception.
initSocket(w, s) ==
    LET v == cleanupConnection(w) IN
    IF ~v.urlOk
    THEN [v EXCEPT !.state = AppState.ERROR,
                   !.initRetry = @ + 1,
                   !.delays = @ \cup {InitDelay(v.reconnectAttempts)},
                   !.thrown = TRUE]
    ELSE IF s = NULL
    THEN [v EXCEPT !.ok = FALSE]
    ELSE [v EXCEPT !.socks[s] = "CONNECTING",
                   !.connectionTimeout = s,
                   !.socket = s]

\* performRematch (Dockerfile 990-1018)
performRematch(w, s) ==
    LET v == [cleanupWebRTC(w) EXCEPT !.messageQueue = <<>>,
                                     !.state = AppState.SEARCHING] IN
    IF SocketOpen(v) THEN sendSocketMessage(v, Join(v)) ELSE initSocket(v, s)

\* handleReconnect lets go of isReconnecting as soon as the awaited initSocket
\* has returned, which is once the socket object exists (Dockerfile 968-969).
ReconnectDone(v) == [v EXCEPT !.isReconnecting = FALSE]

\* this.reconnectAttempts >= this.maxReconnectAttempts (Dockerfile 946)
AttemptsExhausted_never(w) == FALSE

AttemptsExhausted(w) == w.reconnectAttempts >= maxReconnectAttempts

\* baseDelay + jitter of handleReconnect's catch block (Dockerfile 975-977)
BackoffDelay_wide(n, jitter) == Min(1000 * 2^n, 30000) + 3 * jitter

BackoffDelay(n, jitter) == Min(1000 * 2^n, 30000) + jitter

\* The catch block of handleReconnect (Dockerfile 970-987)
ReconnectFailed(v) ==
    LET delay == BackoffDelay(v.reconnectAttempts, v.random) IN
    [v EXCEPT !.isReconnecting = FALSE,
              !.thrown = FALSE,
              !.drew = TRUE,
              !.backoffRetry = @ + 1,
              !.delays = @ \cup {delay},
              !.backoff[v.reconnectAttempts] = delay]

\* handleReconnect (Dockerfile 940-988)
handleReconnect(w, s) ==
    IF w.isReconnecting THEN w
    ELSE IF AttemptsExhausted(w) THEN [w EXCEPT !.fatal = TRUE, !.surfaced = TRUE]
    ELSE LET v == initSocket([w EXCEPT !.isReconnecting = TRUE,
                                       !.reconnectAttempts = @ + 1,
                                       !.state = AppState.CONNECTING], s) IN
         IF v.thrown THEN ReconnectFailed(v)
         ELSE [ReconnectDone(v) EXCEPT !.reconnectSocket = s]

\* startWebRTC (Dockerfile 539-592)
startWebRTC(w, initiator) ==
    LET v  == IF w.peerConnection THEN cleanupWebRTC(w) ELSE w
        v1 == [v EXCEPT !.peerConnection = TRUE, !.ice = "new",
                        !.dataChannel = IF initiator THEN "connecting" ELSE @]
        v2 == IF initiator THEN sendSocketMessage(v1, Signal("offer")) ELSE v1
    IN [v2 EXCEPT !.iceFailTimer = TRUE]

\* handleMatched (Dockerfile 520-537)
handleMatched(w, data, rtcOk, s) ==
    LET v == [w EXCEPT !.state = AppState.CHATTING] IN
    IF rtcOk THEN startWebRTC(v, data.initiator) ELSE performRematch(v, s)

\* handleSignal of the page (Dockerfile 704-741)
clientHandleSignal(w, signal, rtcOk, s) ==
    IF ~rtcOk THEN performRematch(w, s)
    ELSE LET v == IF ~w.peerConnection THEN startWebRTC(w, FALSE) ELSE w IN
         IF signal.type = "offer" THEN sendSocketMessage(v, Signal("answer")) ELSE v

\* handlePartnerLeft with the rematch left out
handlePartnerLeft_ignored(w, s) == w

\* handlePartnerLeft (Dockerfile 904-908)
handlePartnerLeft(w, s) == performRematch(w, s)

\* handleSocketMessage (Dockerfile 474-497); handlePartnerLeft (904-908);
\* handleServerError (910-931) only shows a toast for a frame without code.
handleSocketMessage(w, data, rtcOk, s) ==
    CASE data.type = "matched" -> handleMatched(w, data, rtcOk, s)
      [] data.type = "signal" -> clientHandleSignal(w, data.signal, rtcOk, s)
      [] data.type = "partner-left" -> handlePartnerLeft(w, s)
      [] OTHER -> w

\* checkConnectionHealth (Dockerfile 1020-1033)
checkConnectionHealth(w, s) ==
    IF ~SocketOpen(w) THEN handleReconnect(w, s)
    ELSE LET v == sendSocketMessage(w, Plain("ping")) IN
         IF v.dataChannel \notin {"none", "open"}
         THEN performRematch(v, s) ELSE v

\* ------------------------------------------------------- client handlers
\* The history fields of a page that did not take the latest step.
NoEvent == [op |-> "none", stale |-> FALSE]

Quiet(w) ==
    [w EXCEPT !.out = <<>>, !.ev = NoEvent, !.fatal = FALSE, !.expired = 0,
              !.delays = {}, !.fault = FALSE]

\* The values the next Math.random() * 1000 may yield after a step.
NextRandom(w) == IF w.drew THEN Jitters ELSE {w.random}

\* One step of page a: the handler turned world app[a] into w2.  The step is
\* outside the tracked bounds when it needed a socket object beyond NumSocks,
\* a longer queue or more pending retry timers.
ClientStep(a, op, sock, w2) ==
    /\ w2.ok
    /\ Len(w2.messageQueue) <= MaxQueue
    /\ w2.closeRetry <= MaxPending
    /\ w2.errorRetry <= MaxPending
    /\ w2.initRetry <= MaxBackoff
    /\ w2.backoffRetry <= MaxBackoff
    /\ \E j \in NextRandom(w2) :
          app' = [b \in Apps |->
                    IF b = a
                    THEN [w2 EXCEPT !.ev = [op |-> op,
                                            stale |-> sock # NULL /\ app[a].socket # sock],
                                    !.random = j, !.drew = FALSE, !.thrown = FALSE]
                    ELSE Quiet(app[b])]

\* The world a handler starts from: nothing sent yet.
Begin(a) ==
    [app[a] EXCEPT !.out = <<>>, !.fatal = FALSE, !.expired = 0,
                   !.delays = {}, !.fault = FALSE]

\* handleStart (Dockerfile 288-321): the start button of the name screen,
\* which is hidden once the chat screen shows.
handleStart(a) ==
    /\ ~app[a].started
    /\ LET v == initSocket([Begin(a) EXCEPT !.started = TRUE,
                                            !.state = AppState.CONNECTING], FreshSocket)
       IN ClientStep(a, "start", NULL,
             IF v.thrown THEN [v EXCEPT !.state = AppState.ERROR] ELSE v)

\* handleNext (Dockerfile 323-335): the next button; updateUIForState
\* (223-252) enables it in Chatting, Connected and Disconnected only.
\* `confirmed` is the answer to the confirm dialog shown in Chatting.
handleNext(a, confirmed) ==
    /\ app[a].started
    /\ app[a].state \in {AppState.CHATTING, AppState.CONNECTED, AppState.DISCONNECTED}
    /\ app[a].state = AppState.CHATTING => confirmed
    /\ ClientStep(a, "next", NULL, performRematch(Begin(a), FreshSocket))

\* 'open' listener of socket s (Dockerfile 388-403)
SockOpen(a, s) ==
    /\ app[a].socks[s] = "CONNECTING"
    /\ LET w  == [Begin(a) EXCEPT !.socks[s] = "OPEN"]
           v  == [w EXCEPT !.connectionTimeout = NULL,
                           !.state = AppState.CONNECTED,
                           !.reconnectAttempts = 0,
                           !.isReconnecting = FALSE,
                           !.surfaced = FALSE]
           v1 == sendSocketMessage(v, Join(v))
       IN ClientStep(a, "open", s, [v1 EXCEPT !.state = AppState.SEARCHING])

\* 'message' listener of socket s (Dockerfile 405-413); a socket delivers
\* messages only while OPEN.
SockMessage(a, s, data, rtcOk) ==
    /\ app[a].socks[s] = "OPEN"
    /\ ClientStep(a, data.type, s, handleSocketMessage(Begin(a), data, rtcOk, FreshSocket))

\* Whether the listener is the one of the page's current socket
\* (this.socket === socket, Dockerfile 418 and 435).
IsActive(w, s) == w.socket = s

\* Which timeout clearTimeout(this.connectionTimeout) cancels in the close and
\* error listeners (Dockerfile 416, 433): the one the field holds, whichever
\* socket armed it.
ClearConnectionTimeout(w, s) == [w EXCEPT !.connectionTimeout = NULL]

\* 'close' listener of socket s (Dockerfile 415-430).  Its condition
\* state !== ERROR is always true: DISCONNECTED was set just before.
SockClose(a, s, wasClean) ==
    /\ app[a].socks[s] \in {"CONNECTING", "OPEN", "CLOSING", "FAILING"}
    /\ LET w == Begin(a)
           v == ClearConnectionTimeout(
                   [w EXCEPT !.socks[s] = IF w.socket = s THEN "CLOSED" ELSE "none"], s)
       IN ClientStep(a, "close", s,
             IF IsActive(w, s)
             THEN IF ~wasClean /\ v.reconnectAttempts < maxReconnectAttempts
                  THEN [v EXCEPT !.state = AppState.DISCONNECTED,
                                 !.fault = TRUE,
                                 !.closeRetry = @ + 1,
                                 !.delays = {1000}]
                  ELSE [v EXCEPT !.state = AppState.DISCONNECTED,
                                 !.fault = ~wasClean]
             ELSE v)

\* 'error' listener of socket s (Dockerfile 432-447); the browser reports a
\* failing socket once and then closes it.
SockError(a, s) ==
    /\ app[a].socks[s] \in {"CONNECTING", "OPEN", "CLOSING"}
    /\ LET w == Begin(a)
           v == ClearConnectionTimeout([w EXCEPT !.socks[s] = "FAILING"], s)
       IN ClientStep(a, "error", s,
             IF IsActive(w, s)
             THEN [v EXCEPT !.state = AppState.ERROR, !.fault = TRUE,
                            !.errorRetry = @ + 1, !.delays = {2000}]
             ELSE v)

\* The 10 s connection timeout of socket s expires (Dockerfile 379-385).
ConnectTimeout(a) ==
    /\ app[a].connectionTimeout # NULL
    /\ LET s == app[a].connectionTimeout
           w == [Begin(a) EXCEPT !.connectionTimeout = NULL]
       IN ClientStep(a, "connectTimeout", s,
             IF w.socks[s] = "CONNECTING"
             THEN LET v == handleReconnect([w EXCEPT !.socks[s] = "CLOSING",
                                                     !.fault = w.socket = s],
                                           FreshSocket) IN
                  IF v.reconnectAttempts > w.reconnectAttempts
                  THEN [v EXCEPT !.delays = @ \cup {0}] ELSE v
             ELSE w)

\* The 1 s timer of the close listener expires (Dockerfile 427).
CloseRetry(a) ==
    /\ app[a].closeRetry > 0
    /\ ClientStep(a, "closeRetry", NULL,
          handleReconnect([Begin(a) EXCEPT !.closeRetry = @ - 1], FreshSocket))

\* The 2 s timer of the error listener expires (Dockerfile 441-445).
ErrorRetry(a) ==
    /\ app[a].errorRetry > 0
    /\ LET w == [Begin(a) EXCEPT !.errorRetry = @ - 1] IN
       ClientStep(a, "errorRetry", NULL,
          IF w.state = AppState.ERROR THEN handleReconnect(w, FreshSocket) ELSE w)

\* The timer of initSocket's catch block expires (Dockerfile 468).
InitRetry(a) ==
    /\ app[a].initRetry > 0
    /\ ClientStep(a, "initRetry", NULL,
          handleReconnect([Begin(a) EXCEPT !.initRetry = @ - 1], FreshSocket))

\* The timer of handleReconnect's catch block expires (Dockerfile 981-986).
BackoffRetry(a) ==
    /\ app[a].backoffRetry > 0
    /\ LET w == [Begin(a) EXCEPT !.backoffRetry = @ - 1] IN
       ClientStep(a, "backoffRetry", NULL,
          IF w.state \notin {AppState.CHATTING, AppState.CONNECTED}
          THEN handleReconnect(w, FreshSocket) ELSE w)

\* Whether peer connectivity is established when the 15 s timer looks
\* (Dockerfile 581-582).
IceEstablished(w) == w.peerConnection /\ w.ice = "connected"

\* The 15 s negotiation timer expires (Dockerfile 580-586).
IceTimeout(a) ==
    /\ app[a].iceFailTimer
    /\ LET w == [Begin(a) EXCEPT !.iceFailTimer = FALSE] IN
       ClientStep(a, "iceTimeout", NULL,
          IF ~IceEstablished(w) THEN performRematch(w, FreshSocket) ELSE w)

\* The 30 s interval of setupConnectionMonitoring (Dockerfile 177-184); in
\* any other state the callback does nothing.
HealthTick(a) ==
    /\ app[a].state = AppState.CHATTING
    /\ app[a].socket # NULL
    /\ ClientStep(a, "health", NULL, checkConnectionHealth(Begin(a), FreshSocket))

\* onicecandidate (Dockerfile 598-608)
IceCandidate(a) ==
    /\ app[a].peerConnection
    /\ ClientStep(a, "candidate", NULL, sendSocketMessage(Begin(a), Signal("candidate")))

\* oniceconnectionstatechange (Dockerfile 611-626)
IceChange(a, st) ==
    /\ app[a].peerConnection
    /\ st # app[a].ice
    /\ LET w == [Begin(a) EXCEPT !.ice = st] IN
       ClientStep(a, "ice", NULL,
          IF st \in {"failed", "disconnected"} THEN performRematch(w, FreshSocket)
          ELSE IF st = "connected" THEN [w EXCEPT !.iceFailTimer = FALSE]
          ELSE w)

\* onconnectionstatechange reporting "failed" (Dockerfile 629-635)
PcFailed(a) ==
    /\ app[a].peerConnection
    /\ ClientStep(a, "pcFailed", NULL, performRematch(Begin(a), FreshSocket))

\* ondatachannel of the responder (Dockerfile 573-576)
DataChannelArrives(a) ==
    /\ app[a].peerConnection
    /\ app[a].dataChannel = "none"
    /\ ClientStep(a, "datachannel", NULL, [Begin(a) EXCEPT !.dataChannel = "connecting"])

\* dataChannel.onopen (Dockerfile 646-655)
DcOpen(a) ==
    /\ app[a].dataChannel = "connecting"
    /\ LET w  == [Begin(a) EXCEPT !.dataChannel = "open", !.state = AppState.CHATTING]
           v  == sendSocketMessage(w, Plain("connected"))
       IN ClientStep(a, "dcOpen", NULL,
             processMessageQueue([v EXCEPT !.iceFailTimer = FALSE]))

\* dataChannel.onclose (Dockerfile 671-676)
DcClose(a) ==
    /\ app[a].dataChannel \in {"connecting", "open"}
    /\ LET w == [Begin(a) EXCEPT !.dataChannel = "closed"] IN
       ClientStep(a, "dcClose", NULL,
          IF w.state = AppState.CHATTING THEN performRematch(w, FreshSocket) ELSE w)

\* dataChannel.onclose (Dockerfile 671-676) of a channel cleanupWebRTC closed
StaleDcClose(a) ==
    /\ app[a].staleChannel
    /\ LET w == [Begin(a) EXCEPT !.staleChannel = FALSE] IN
       ClientStep(a, "staleDcClose", NULL,
          IF w.state = AppState.CHATTING THEN performRematch(w, FreshSocket) ELSE w)

\* dataChannel.onerror (Dockerfile 678-681)
DcError(a) ==
    /\ app[a].dataChannel \in {"connecting", "open"}
    /\ ClientStep(a, "dcError", NULL, performRematch(Begin(a), FreshSocket))

\* What handleBackground does to the negotiation timer (Dockerfile 1275-1278).
BackgroundTimer(w) == [w EXCEPT !.iceFailTimer = FALSE]

\* visibilitychange to hidden: handleBackground (Dockerfile 1272-1283)
Background(a) ==
    /\ ~app[a].hidden
    /\ LET w == BackgroundTimer([Begin(a) EXCEPT !.hidden = TRUE]) IN
       ClientStep(a, "background", NULL,
          IF w.state = AppState.CHATTING /\ w.socket # NULL
          THEN sendSocketMessage(w, Plain("pause")) ELSE w)

\* visibilitychange to visible: handleForeground (Dockerfile 1285-1294)
Foreground(a) ==
    /\ app[a].hidden
    /\ LET w == [Begin(a) EXCEPT !.hidden = FALSE] IN
       ClientStep(a, "foreground", NULL,
          IF w.state = AppState.CHATTING /\ w.socket # NULL
          THEN checkConnectionHealth(sendSocketMessage(w, Plain("resume")), FreshSocket)
          ELSE IF w.state \in {AppState.DISCONNECTED, AppState.ERROR}
               THEN handleReconnect(w, FreshSocket)
               ELSE w)

\* window 'offline': handleDisconnect of the page (Dockerfile 164, 933-938)
Offline(a) ==
    /\ ~app[a].offline
    /\ ClientStep(a, "offline", NULL,
          cleanupConnection([Begin(a) EXCEPT !.offline = TRUE,
                                             !.state = AppState.DISCONNECTED]))

\* window 'online' (Dockerfile 165-169)
Online(a) ==
    /\ app[a].offline
    /\ LET w == [Begin(a) EXCEPT !.offline = FALSE] IN
       ClientStep(a, "online", NULL,
          IF w.state \in {AppState.DISCONNECTED, AppState.ERROR}
          THEN handleReconnect(w, FreshSocket) ELSE w)

\* Time passes (Date.now() grows by TickMs): every queued item is older.
\* Ages beyond maxAge are not told apart.
Tick(a) ==
    /\ \E i \in 1..Len(app[a].messageQueue) : app[a].messageQueue[i].age <= maxAge
    /\ LET q == app[a].messageQueue IN
       ClientStep(a, "tick", NULL,
          [Begin(a) EXCEPT !.messageQueue =
              [i \in 1..Len(q) |->
                  [q[i] EXCEPT !.age = IF q[i].age > maxAge THEN q[i].age
                                       ELSE q[i].age + TickMs]]])

\* ------------------------------------------- the page with a free relay
\* The relay is left out: socket events and relay frames arrive as the
\* network and any relay could produce them.
InitClient ==
    /\ Init
    /\ app = [a \in Apps |-> NewApp]
    /\ up = [s \in Conns |-> <<>>]
    /\ down = [s \in Conns |-> <<>>]

NextClient ==
    \/ handleStart(TheApp) /\ UNCHANGED <<vars, up, down>>
    \/ \E c \in BOOLEAN : handleNext(TheApp, c) /\ UNCHANGED <<vars, up, down>>
    \/ \E s \in Socks : SockOpen(TheApp, s) /\ UNCHANGED <<vars, up, down>>
    \/ \E s \in Socks, d \in ServerFrames, k \in BOOLEAN :
          SockMessage(TheApp, s, d, k) /\ UNCHANGED <<vars, up, down>>
    \/ \E s \in Socks, c \in BOOLEAN : SockClose(TheApp, s, c) /\ UNCHANGED <<vars, up, down>>
    \/ \E s \in Socks : SockError(TheApp, s) /\ UNCHANGED <<vars, up, down>>
    \/ ConnectTimeout(TheApp) /\ UNCHANGED <<vars, up, down>>
    \/ CloseRetry(TheApp) /\ UNCHANGED <<vars, up, down>>
    \/ ErrorRetry(TheApp) /\ UNCHANGED <<vars, up, down>>
    \/ IceTimeout(TheApp) /\ UNCHANGED <<vars, up, down>>
    \/ HealthTick(TheApp) /\ UNCHANGED <<vars, up, down>>
    \/ IceCandidate(TheApp) /\ UNCHANGED <<vars, up, down>>
    \/ \E st \in IceEvents : IceChange(TheApp, st) /\ UNCHANGED <<vars, up, down>>
    \/ PcFailed(TheApp) /\ UNCHANGED <<vars, up, down>>
    \/ DataChannelArrives(TheApp) /\ UNCHANGED <<vars, up, down>>
    \/ DcOpen(TheApp) /\ UNCHANGED <<vars, up, down>>
    \/ DcClose(TheApp) /\ UNCHANGED <<vars, up, down>>
    \/ DcError(TheApp) /\ UNCHANGED <<vars, up, down>>
    \/ Background(TheApp) /\ UNCHANGED <<vars, up, down>>
    \/ Foreground(TheApp) /\ UNCHANGED <<vars, up, down>>
    \/ Offline(TheApp) /\ UNCHANGED <<vars, up, down>>
    \/ Online(TheApp) /\ UNCHANGED <<vars, up, down>>

SpecClient == InitClient /\ [][NextClient]_allvars

\* ------------------------------- the page with a free relay and a clock
\* The same page while time passes; the network interface stays up.
NextQueue ==
    \/ handleStart(TheApp) /\ UNCHANGED <<vars, up, down>>
    \/ \E c \in BOOLEAN : handleNext(TheApp, c) /\ UNCHANGED <<vars, up, down>>
    \/ \E s \in Socks : SockOpen(TheApp, s) /\ UNCHANGED <<vars, up, down>>
    \/ \E s \in Socks, d \in ServerFrames, k \in BOOLEAN :
          SockMessage(TheApp, s, d, k) /\ UNCHANGED <<vars, up, down>>
    \/ \E s \in Socks, c \in BOOLEAN : SockClose(TheApp, s, c) /\ UNCHANGED <<vars, up, down>>
    \/ \E s \in Socks : SockError(TheApp, s) /\ UNCHANGED <<vars, up, down>>
    \/ ConnectTimeout(TheApp) /\ UNCHANGED <<vars, up, down>>
    \/ CloseRetry(TheApp) /\ UNCHANGED <<vars, up, down>>
    \/ ErrorRetry(TheApp) /\ UNCHANGED <<vars, up, down>>
    \/ IceTimeout(TheApp) /\ UNCHANGED <<vars, up, down>>
    \/ HealthTick(TheApp) /\ UNCHANGED <<vars, up, down>>
    \/ IceCandidate(TheApp) /\ UNCHANGED <<vars, up, down>>
    \/ \E st \in IceEvents : IceChange(TheApp, st) /\ UNCHANGED <<vars, up, down>>
    \/ PcFailed(TheApp) /\ UNCHANGED <<vars, up, down>>
    \/ DataChannelArrives(TheApp) /\ UNCHANGED <<vars, up, down>>
    \/ DcOpen(TheApp) /\ UNCHANGED <<vars, up, down>>
    \/ DcClose(TheApp) /\ UNCHANGED <<vars, up, down>>
    \/ DcError(TheApp) /\ UNCHANGED <<vars, up, down>>
    \/ Background(TheApp) /\ UNCHANGED <<vars, up, down>>
    \/ Foreground(TheApp) /\ UNCHANGED <<vars, up, down>>
    \/ Tick(TheApp) /\ UNCHANGED <<vars, up, down>>

SpecQueue == InitClient /\ [][NextQueue]_allvars

\* ------------------------- the page with late data channel events
\* The page in the foreground and online, with the close events of the data
\* channels that cleanupWebRTC closed.
InitChannel ==
    /\ Init
    /\ app = [a \in Apps |-> [NewApp EXCEPT !.lateClose = TRUE]]
    /\ up = [s \in Conns |-> <<>>]
    /\ down = [s \in Conns |-> <<>>]

NextChannel ==
    \/ handleStart(TheApp) /\ UNCHANGED <<vars, up, down>>
    \/ \E c \in BOOLEAN : handleNext(TheApp, c) /\ UNCHANGED <<vars, up, down>>
    \/ \E s \in Socks : SockOpen(TheApp, s) /\ UNCHANGED <<vars, up, down>>
    \/ \E s \in Socks, d \in ServerFrames, k \in BOOLEAN :
          SockMessage(TheApp, s, d, k) /\ UNCHANGED <<vars, up, down>>
    \/ \E s \in Socks, c \in BOOLEAN : SockClose(TheApp, s, c) /\ UNCHANGED <<vars, up, down>>
    \/ \E s \in Socks : SockError(TheApp, s) /\ UNCHANGED <<vars, up, down>>
    \/ ConnectTimeout(TheApp) /\ UNCHANGED <<vars, up, down>>
    \/ CloseRetry(TheApp) /\ UNCHANGED <<vars, up, down>>
    \/ ErrorRetry(TheApp) /\ UNCHANGED <<vars, up, down>>
    \/ IceTimeout(TheApp) /\ UNCHANGED <<vars, up, down>>
    \/ HealthTick(TheApp) /\ UNCHANGED <<vars, up, down>>
    \/ IceCandidate(TheApp) /\ UNCHANGED <<vars, up, down>>
    \/ \E st \in IceEvents : IceChange(TheApp, st) /\ UNCHANGED <<vars, up, down>>
    \/ PcFailed(TheApp) /\ UNCHANGED <<vars, up, down>>
    \/ DataChannelArrives(TheApp) /\ UNCHANGED <<vars, up, down>>
    \/ DcOpen(TheApp) /\ UNCHANGED <<vars, up, down>>
    \/ DcClose(TheApp) /\ UNCHANGED <<vars, up, down>>
    \/ DcError(TheApp) /\ UNCHANGED <<vars, up, down>>
    \/ StaleDcClose(TheApp) /\ UNCHANGED <<vars, up, down>>

SpecChannel == InitChannel /\ [][NextChannel]_allvars

\* ------------------------------------------------ the outbound buffer
\* sendSocketMessage and processMessageQueue on their own: a started page
\* whose socket is open or gone and whose queue holds items of any age, as
\* earlier sends left them; the two functions are applied to it.

\* Longest messageQueue this specification tracks.
MaxBuffer == 2

\* Arguments of sendSocketMessage: a signal frame (Dockerfile 600), the
\* connected report (649) and the heartbeats (489, 1027).
BufferInputs == {Signal("candidate"), Plain("connected"), Plain("ping"), Plain("pong")}

\* The items sendSocketMessage can have queued, by age.
BufferItems ==
    {[message |-> m, age |-> k * TickMs] :
        m \in {x \in BufferInputs : Buffered(x)}, k \in 0..2}

BufferQueues ==
    UNION {[1..n -> BufferItems] : n \in 0..MaxBuffer}

InitBuffer ==
    /\ Init
    /\ \E open \in BOOLEAN, q \in BufferQueues :
          app = [a \in Apps |->
                   IF a = TheApp
                   THEN [NewApp EXCEPT !.started = TRUE,
                                       !.state = IF open THEN AppState.SEARCHING
                                                 ELSE AppState.DISCONNECTED,
                                       !.socket = IF open THEN 1 ELSE NULL,
                                       !.socks[1] = IF open THEN "OPEN" ELSE "none",
                                       !.messageQueue = q]
                   ELSE NewApp]
    /\ up = [s \in Conns |-> <<>>]
    /\ down = [s \in Conns |-> <<>>]

\* One application of a function to page a.
BufferStep(a, ev, w2) ==
    /\ Len(w2.messageQueue) <= MaxBuffer
    /\ app' = [b \in Apps |-> IF b = a THEN [w2 EXCEPT !.ev = ev] ELSE Quiet(app[b])]

\* sendSocketMessage(message) (Dockerfile 499-516)
BufferSend(a, message) ==
    BufferStep(a, [op |-> "send", stale |-> FALSE, message |-> message],
               sendSocketMessage(Begin(a), message))

\* processMessageQueue() (Dockerfile 789-808)
BufferSweep(a) ==
    BufferStep(a, [op |-> "sweep", stale |-> FALSE], processMessageQueue(Begin(a)))

NextBuffer ==
    \/ \E m \in BufferInputs : BufferSend(TheApp, m) /\ UNCHANGED <<vars, up, down>>
    \/ BufferSweep(TheApp) /\ UNCHANGED <<vars, up, down>>

SpecBuffer == InitBuffer /\ [][NextBuffer]_allvars

\* ------------------------------------ the page with a refused relay URL
\* The page as served: "Cloud backend url " fails the test of Dockerfile 359
\* unless window.ANONCHAT_WS_URL is set, so every initSocket throws.
InitBackoff ==
    /\ Init
    /\ \E j \in Jitters :
          app = [a \in Apps |-> [NewApp EXCEPT !.urlOk = FALSE, !.random = j]]
    /\ up = [s \in Conns |-> <<>>]
    /\ down = [s \in Conns |-> <<>>]

NextBackoff ==
    \/ handleStart(TheApp) /\ UNCHANGED <<vars, up, down>>
    \/ \E c \in BOOLEAN : handleNext(TheApp, c) /\ UNCHANGED <<vars, up, down>>
    \/ InitRetry(TheApp) /\ UNCHANGED <<vars, up, down>>
    \/ BackoffRetry(TheApp) /\ UNCHANGED <<vars, up, down>>
    \/ Background(TheApp) /\ UNCHANGED <<vars, up, down>>
    \/ Foreground(TheApp) /\ UNCHANGED <<vars, up, down>>
    \/ Offline(TheApp) /\ UNCHANGED <<vars, up, down>>
    \/ Online(TheApp) /\ UNCHANGED <<vars, up, down>>

SpecBackoff == InitBackoff /\ [][NextBackoff]_allvars

\* ------------------------------------------------ the relay on its own
Spec == InitClient /\ [][Next]_allvars

\* ------------------------------------------------------------- type check

TypeOK ==
    /\ DOMAIN clients \subseteq Conns
    /\ \A ws \in DOMAIN clients :
          /\ clients[ws].id = ws
          /\ clients[ws].state \in {STATES.IDLE, STATES.SEARCHING,
                                     STATES.CONNECTING, STATES.CONNECTED}
          /\ clients[ws].partner \in Conns \cup {NULL}
    /\ waitingUser \in Conns \cup {NULL}
    /\ readyState \in [Conns -> ReadyStates]
    /\ Len(sent) <= 2

\* ------------------------------------------------------------- properties

\* Positions in `sent` of the frames of one type addressed to one socket.
SentTo(ws, type) ==
    {i \in 1..Len(sent) : sent[i].to = ws /\ sent[i].msg.type = type}

\* The last handler was a join that found the slot holding another socket.
JoinFoundOther == /\ last.op = "join"
                  /\ last.slot \notin {NULL, last.ws}

\* C1: partner linkage is reciprocal or absent: for registered A and B,
\* A.partner = B if and only if B.partner = A.
C1_PartnerLinkageReciprocal ==
    \A a \in DOMAIN clients, b \in DOMAIN clients :
        (clients[a].partner = b) <=> (clients[b].partner = a)

\* C2: for each connection A at most one registered connection B has
\* B.partner = A.
C2_AtMostOnePartner ==
    \A a \in DOMAIN clients :
        Cardinality({b \in DOMAIN clients : clients[b].partner = a}) <= 1

\* C3: no connection is ever paired with itself (no partner reference names
\* its own entry, and a pairing always matches two different sockets), and
\* the slot holds at most one occupant.
C3_NoSelfPairing ==
    /\ \A c \in DOMAIN clients : clients[c].partner # c
    /\ \A i \in 1..Len(sent) :
          sent[i].msg.type = "matched" =>
             /\ last.op = "join"
             /\ last.slot # last.ws
             /\ sent[i].to \in {last.ws, last.slot}
             /\ clients[last.ws].partner = last.slot
    /\ waitingUser \in Conns \cup {NULL}

\* C3 witness: the slot occupant itself, no longer Searching, sent join: the
\* one case in which the slot could be matched against its own occupant.
C3_Witness ==
    /\ last.op = "join"
    /\ last.slot = last.ws
    /\ last.state = STATES.CONNECTED
    /\ waitingUser = last.ws

\* C4: a paired connection that sends join ends its session on both sides:
\* the former partner is told partner-left and no longer references the
\* joiner unless the joiner references it back.
C4_RematchDestroysSession ==
    (/\ last.op = "join"
     /\ last.state # STATES.SEARCHING
     /\ last.partner \in DOMAIN clients)
    => /\ readyState[last.partner] = "OPEN" => SentTo(last.partner, "partner-left") # {}
       /\ clients[last.partner].partner = last.ws
             => clients[last.ws].partner = last.partner

\* C5: after a connection's close event the registry holds no reference to
\* it: no entry, not the slot, nobody's partner.
C5_NoReferenceToDeparted ==
    \A c \in Conns :
        readyState[c] = "CLOSED" =>
            /\ c \notin DOMAIN clients
            /\ waitingUser # c
            /\ \A d \in DOMAIN clients : clients[d].partner # c

PairedState ==
    /\ clients[last.ws].state = STATES.CONNECTING
    /\ clients[last.slot].state = STATES.CONNECTING
    /\ clients[last.ws].partner = last.slot
    /\ clients[last.slot].partner = last.ws
    /\ waitingUser = NULL

\* Every matched frame in `sent` carries the recorded name of the other side.
MatchedNamesRight ==
    \A i \in 1..Len(sent) :
        sent[i].msg.type = "matched" =>
            \/ sent[i].to = last.ws /\ sent[i].msg.partnerName = clients[last.slot].name
            \/ sent[i].to = last.slot /\ sent[i].msg.partnerName = clients[last.ws].name

\* C7 as claimed: a join that finds another, Searching connection in the slot
\* pairs the two and sends each exactly one matched frame, with the other's
\* name, initiator true on exactly one.
C7_PairingNotifiesBoth ==
    (JoinFoundOther /\ last.slotState = STATES.SEARCHING)
    => /\ PairedState
       /\ Len(sent) = 2
       /\ Cardinality(SentTo(last.ws, "matched")) = 1
       /\ Cardinality(SentTo(last.slot, "matched")) = 1
       /\ MatchedNamesRight
       /\ Cardinality({i \in 1..Len(sent) : sent[i].msg.initiator}) = 1

\* C7 as amended: the same pairing; each of the two whose transport is open
\* is sent exactly one matched frame, one whose transport is not open is sent
\* none, and at most one frame carries initiator true.
C7_PairingNotifiesOpenSides ==
    (JoinFoundOther /\ last.slotState = STATES.SEARCHING)
    => /\ PairedState
       /\ \A c \in {last.ws, last.slot} :
             Cardinality(SentTo(c, "matched")) = IF readyState[c] = "OPEN" THEN 1 ELSE 0
       /\ Len(sent) = Cardinality({c \in {last.ws, last.slot} : readyState[c] = "OPEN"})
       /\ MatchedNamesRight
       /\ Len(sent) = 2 => sent[1].msg.initiator # sent[2].msg.initiator
       /\ Cardinality({i \in 1..Len(sent) : sent[i].msg.initiator}) <= 1

\* C7 witness: a pairing of two differently named connections, both notified.
C7_Witness ==
    /\ JoinFoundOther /\ last.slotState = STATES.SEARCHING
    /\ Len(sent) = 2
    /\ clients[last.ws].name # clients[last.slot].name

\* C8: in a pairing the arriving connection is the initiator: with X waiting
\* and Y arriving, Y is sent initiator true and X initiator false.
C8_ArrivingIsInitiator ==
    (JoinFoundOther /\ last.slotState = STATES.SEARCHING)
    => /\ \A i \in SentTo(last.ws, "matched") : sent[i].msg.initiator = TRUE
       /\ readyState[last.ws] = "OPEN"
             => \E i \in SentTo(last.ws, "matched") : sent[i].msg.initiator = TRUE
       /\ readyState[last.slot] = "OPEN"
             => \E i \in SentTo(last.slot, "matched") : sent[i].msg.initiator = FALSE

\* C8 witness: X (socket 1) joined into the empty slot, Y (socket 2) joined
\* next, and both were sent matched.
C8_Witness ==
    /\ last.op = "join" /\ last.ws = 2 /\ last.slot = 1
    /\ last.slotState = STATES.SEARCHING
    /\ SentTo(1, "matched") # {} /\ SentTo(2, "matched") # {}

\* C9 as claimed: the previously waiting connection (the slot occupant at the
\* time of pairing) is the one sent initiator true.
C9_WaiterIsInitiator ==
    \A i \in 1..Len(sent) :
        sent[i].msg.type = "matched" =>
            (sent[i].msg.initiator <=> sent[i].to = last.slot)

\* C9 as amended: the initiator flag is fixed by the role in the pairing: the
\* previously waiting connection is sent initiator false and only the other,
\* arriving connection is sent initiator true.
C9_InitiatorByRole ==
    \A i \in 1..Len(sent) :
        sent[i].msg.type = "matched" =>
            (sent[i].msg.initiator <=> sent[i].to # last.slot)

\* C9 witness: the previously waiting connection was sent a matched frame.
C9_Witness ==
    /\ last.op = "join"
    /\ last.slot # NULL
    /\ SentTo(last.slot, "matched") # {}

\* C10: a join that finds another connection in the slot whose state is not
\* Searching (or that has no entry) pairs nobody: the joiner becomes the slot
\* occupant in Searching, nothing is sent, no partner reference changes.
C10_StaleSlotReplaced ==
    [][\A n \in DOMAIN clients :
          (/\ last'.op = "join" /\ last'.ws = n
           /\ waitingUser \notin {NULL, n}
           /\ (waitingUser \notin DOMAIN clients
                 \/ clients[waitingUser].state # STATES.SEARCHING))
          => /\ waitingUser' = n
             /\ clients'[n].state = STATES.SEARCHING
             /\ sent' = <<>>
             /\ DOMAIN clients' = DOMAIN clients
             /\ \A c \in DOMAIN clients : clients'[c].partner = clients[c].partner]_vars

\* C10 witness: a join replaced a stale occupant.
C10_Witness ==
    /\ JoinFoundOther
    /\ last.slotState # STATES.SEARCHING
    /\ waitingUser = last.ws
    /\ clients[last.ws].state = STATES.SEARCHING

\* C11: a join from a connection that is already Searching changes nothing:
\* no entry (state, name, partner), not the slot, and nothing is sent.
C11_DuplicateJoinNoop ==
    [][\A n \in DOMAIN clients :
          (/\ last'.op = "join" /\ last'.ws = n
           /\ clients[n].state = STATES.SEARCHING)
          => /\ clients' = clients
             /\ waitingUser' = waitingUser
             /\ readyState' = readyState
             /\ sent' = <<>>]_vars

\* C11 witness: a Searching connection recorded as Stranger sent join again
\* with another name, and is still recorded as Stranger.
C11_Witness ==
    /\ last.op = "join"
    /\ last.state = STATES.SEARCHING
    /\ last.arg = "Ann"
    /\ clients[last.ws].name = "Stranger"

\* C12: the slot is empty or holds a waiting participant: a registered
\* connection in state Searching whose partner reference is null.
C12_SlotHoldsWaitingParticipant ==
    waitingUser # NULL
    => /\ waitingUser \in DOMAIN clients
       /\ clients[waitingUser].state = STATES.SEARCHING
       /\ clients[waitingUser].partner = NULL

\* C13: a signal frame from A is delivered, as received, to A.partner and to
\* nobody else exactly when A.partner is set and its transport is open;
\* otherwise nothing is sent at all (no delivery, no error reply).
C13_SignalRelayedOrDropped ==
    last.op = "signal"
    => sent = IF last.partner # NULL /\ readyState[last.partner] = "OPEN"
                THEN <<[to |-> last.partner,
                        msg |-> [type |-> "signal", signal |-> [type |-> last.arg]]]>>
                ELSE <<>>

\* C13 witness: a signal from a connection whose partner's transport is no
\* longer open was dropped without a reply.
C13_Witness ==
    /\ last.op = "signal"
    /\ last.partner # NULL
    /\ readyState[last.partner] # "OPEN"
    /\ sent = <<>>

\* Claim C24: a frame that cannot be parsed gets exactly one error reply,
\* sent to its sender, and leaves the registry, the slot and every socket's
\* readyState as they were.
C24_InvalidFrameReplied ==
    [][last'.op = "invalid"
       => /\ Len(sent') = 1
          /\ sent'[1].to = last'.ws
          /\ sent'[1].msg.type = "error"
          /\ clients' = clients
          /\ waitingUser' = waitingUser
          /\ readyState' = readyState]_vars

\* A paired connection sent a frame that cannot be parsed.
C24_Witness ==
    /\ last.op = "invalid"
    /\ last.partner # NULL
    /\ sent # <<>>

\* Claim C25: a parsed frame of a type the relay does not know gets an error
\* reply, sent to its sender.
C25_UnknownTypeReported ==
    last.op = "other"
    => /\ Len(sent) = 1
       /\ sent[1].to = last.ws
       /\ sent[1].msg.type = "error"

\* The state of connection ws changes from `from` to `to` in this step.
Moves(ws, from, to) ==
    /\ ws \in DOMAIN clients
    /\ ws \in DOMAIN clients'
    /\ clients[ws].state = from
    /\ clients'[ws].state = to

\* Claim C28: a connection's state changes only along Idle -> Searching ->
\* Connecting -> Connected: Searching is entered only by the connection's own
\* join, Connecting only in a pairing (by the waiting connection from
\* Searching, by the joining one through Searching inside the handler),
\* Connected only from Connecting, and Idle is never entered again.
C28_StateAdvancesAlongFsm ==
    [][\A ws \in Conns : \A from \in {STATES.IDLE, STATES.SEARCHING,
                                       STATES.CONNECTING, STATES.CONNECTED} :
          /\ (from # STATES.SEARCHING /\ Moves(ws, from, STATES.SEARCHING))
             => last'.op = "join" /\ last'.ws = ws
          /\ (from # STATES.CONNECTING /\ Moves(ws, from, STATES.CONNECTING))
             => /\ last'.op = "join"
                /\ last'.branch = "paired"
                /\ ws = last'.ws \/ from = STATES.SEARCHING
          /\ (from # STATES.CONNECTED /\ Moves(ws, from, STATES.CONNECTED))
             => from = STATES.CONNECTING
          /\ (from # STATES.IDLE) => ~Moves(ws, from, STATES.IDLE)]_vars

\* The registered connections in relay state Searching.
Searchers == {ws \in DOMAIN clients : clients[ws].state = STATES.SEARCHING}

\* C32: at most one registered connection is Searching and it is the slot
\* occupant; a join by another connection that finds a Searching connection
\* is paired with it and leaves nobody Searching.
C32_OneSearcherInSlot ==
    /\ Cardinality(Searchers) <= 1
    /\ \A ws \in Searchers : waitingUser = ws
    /\ (last.op = "join" /\ last.slotState = STATES.SEARCHING /\ last.slot # last.ws)
          => /\ last.branch = "paired"
             /\ clients[last.ws].partner = last.slot
             /\ clients[last.slot].partner = last.ws
             /\ Searchers = {}

\* A third connection joined while one was Searching and another registered.
C32_Witness ==
    /\ last.op = "join"
    /\ last.branch = "paired"
    /\ last.slotState = STATES.SEARCHING
    /\ Cardinality(DOMAIN clients) = NumConns

\* C33: a relayed signal envelope reaches a connection only from its current
\* partner: when the relay forwards A's envelope to B, B.partner is A.
C33_SignalOnlyFromPartner ==
    (last.op = "signal" /\ last.branch = "forwarded")
       => \A i \in 1..Len(sent) :
             /\ sent[i].to \in DOMAIN clients
             /\ clients[sent[i].to].partner = last.ws

\* C34: a registered connection has a partner reference exactly when its
\* state is Connecting or Connected.
C34_PartnerIffPairedState ==
    \A ws \in DOMAIN clients :
        clients[ws].partner # NULL
           <=> clients[ws].state \in {STATES.CONNECTING, STATES.CONNECTED}

\* ------------------------------------------------- client-side properties

\* The step created a socket object for page a (new WebSocket).
NewSocket(a) ==
    \E s \in Socks : app[a].socks[s] = "none" /\ app'[a].socks[s] = "CONNECTING"

\* The fields the claims call the reconnect bookkeeping.
Bookkeeping(w) == <<w.reconnectAttempts, w.isReconnecting, w.closeRetry, w.errorRetry>>

\* Claim C18: an event (open, message, close, error) of a socket that is no
\* longer the page's current one changes neither the session state, nor the
\* reconnect bookkeeping, nor the connection timeout of the current socket,
\* and sends nothing.
C18_StaleEventsIgnored ==
    [][\A a \in Apps :
          app'[a].ev.stale
          => /\ app'[a].state = app[a].state
             /\ Bookkeeping(app'[a]) = Bookkeeping(app[a])
             /\ app'[a].connectionTimeout = app[a].connectionTimeout
             /\ app'[a].out = <<>>]_allvars

\* Peer connectivity of the current negotiation has not been reached so far.
Negotiating(w) ==
    /\ w.peerConnection
    /\ w.ice = "new"
    /\ w.dataChannel \in {"none", "connecting"}

\* Claim C16: while a negotiation has not reached connectivity its 15 s timer
\* is pending, so that its expiry requests the rematch, whatever other events
\* the page has handled since the negotiation began.
C16_NegotiationTimerPending ==
    \A a \in Apps : Negotiating(app[a]) => app[a].iceFailTimer

\* Claim C17: when the page leaves Chatting for Searching, Disconnected or
\* Error, no negotiation timer is left pending.
C17_TimersCancelledOnLeave ==
    [][\A a \in Apps :
          (/\ app[a].state = AppState.CHATTING
           /\ app'[a].state \in {AppState.SEARCHING, AppState.DISCONNECTED,
                                 AppState.ERROR})
          => ~app'[a].iceFailTimer]_allvars

\* The handlers the user triggers.
UserOps == {"start", "next"}

\* Claim C19: with 5 reconnect attempts made since the last successful open,
\* no handler other than a user action creates a socket.
C19_NoTransportPastCap ==
    [][\A a \in Apps :
          (/\ app[a].reconnectAttempts >= maxReconnectAttempts
           /\ app'[a].ev.op \notin UserOps)
          => ~NewSocket(a)]_allvars

\* The 2 s timer of a failed fifth attempt expired in state Error and
\* handleReconnect returned without a new socket.
C19_Witness ==
    /\ app[TheApp].ev.op = "errorRetry"
    /\ app[TheApp].state = AppState.ERROR
    /\ app[TheApp].reconnectAttempts = maxReconnectAttempts
    /\ app[TheApp].socket # NULL
    /\ app[TheApp].socks[app[TheApp].socket] \in {"FAILING", "CLOSED"}

\* A reconnect attempt is in flight: the socket the latest handleReconnect
\* created is the current one and has neither opened nor failed.
ReconnectInFlight(w) ==
    /\ w.reconnectSocket # NULL
    /\ w.socket = w.reconnectSocket
    /\ w.socks[w.socket] = "CONNECTING"

\* The callbacks that call handleReconnect for another reason than the
\* current socket's own timeout.
ReconnectCalls == {"closeRetry", "errorRetry", "online", "foreground", "health"}

\* Claim C20: while a reconnect attempt is in flight, a further call of
\* handleReconnect neither increments reconnectAttempts nor creates a socket.
C20_OneReconnectInFlight ==
    [][\A a \in Apps :
          (/\ ReconnectInFlight(app[a])
           /\ app'[a].ev.op \in ReconnectCalls)
          => /\ app'[a].reconnectAttempts = app[a].reconnectAttempts
             /\ ~NewSocket(a)]_allvars

\* Claim C21: when handleReconnect finds the attempts exhausted and gives up,
\* the page is in Error.
C21_ExhaustedIsError ==
    \A a \in Apps : app[a].fatal => app[a].state = AppState.ERROR

\* The frames of `out` that replay queue item `item`.
Replays(w, item) ==
    SelectSeq(w.out, LAMBDA f : f.replay /\ f.msg = item.message)

\* Claim C22: when the socket of a reconnect opens, every queued message not
\* older than 30 s is sent exactly once and leaves the queue.
C22_ReplayedOnReconnect ==
    [][\A a \in Apps :
          (app'[a].ev.op = "open" /\ ~app'[a].ev.stale)
          => \A i \in 1..Len(app[a].messageQueue) :
                app[a].messageQueue[i].age <= maxAge
                => /\ Len(Replays(app'[a], app[a].messageQueue[i])) = 1
                   /\ app'[a].messageQueue = <<>>]_allvars

\* Claim C23: no frame is replayed from a queue item older than 30 s, and a
\* sweep leaves no such item in the queue.
C23_OldMessagesNeverSent ==
    \A a \in Apps :
       /\ \A i \in 1..Len(app[a].out) :
             app[a].out[i].replay => app[a].out[i].age <= maxAge
       /\ app[a].ev.op = "dcOpen"
          => \A i \in 1..Len(app[a].messageQueue) :
                app[a].messageQueue[i].age <= maxAge

\* A sweep with the socket open dropped an item for its age.
C23_Witness ==
    /\ app[TheApp].ev.op = "dcOpen"
    /\ app[TheApp].expired > 0
    /\ SocketOpen(app[TheApp])

\* C29: a page enters Chatting only from Searching, and only in the step
\* that handles a matched frame.
C29_ChattingOnlyByMatched ==
    [][\A a \in Apps :
         (app'[a].state = AppState.CHATTING /\ app[a].state # AppState.CHATTING)
            => /\ app[a].state = AppState.SEARCHING
               /\ app'[a].ev.op = "matched"]_allvars

\* C26: the delay handleReconnect computes, min(1000*2^n, 30000) plus a
\* jitter below 1000, never decreases as the attempt count n grows from 1 to
\* maxReconnectAttempts, whatever the jitter values.
C26_DelayNonDecreasing ==
    \A a \in Apps : \A m, n \in 1..maxReconnectAttempts :
        (m < n /\ app[a].backoff[m] # NULL /\ app[a].backoff[n] # NULL)
           => app[a].backoff[m] <= app[a].backoff[n]

\* All five delays were computed, the first with the largest jitter and the
\* last, at the cap, with none.
C26_Witness ==
    /\ \A n \in 1..maxReconnectAttempts : app[TheApp].backoff[n] # NULL
    /\ app[TheApp].backoff[1] = 2999
    /\ app[TheApp].backoff[maxReconnectAttempts] = 30000

\* No timer and no transport event is due that would start a connection
\* attempt or report that the attempts are used up.
NoReconnectPending(w) ==
    /\ w.closeRetry = 0
    /\ w.errorRetry = 0 \/ w.state # AppState.ERROR
    /\ w.initRetry = 0
    /\ w.backoffRetry = 0
    /\ w.connectionTimeout = NULL
    /\ ~w.iceFailTimer
    /\ ~w.peerConnection
    /\ w.dataChannel \notin {"connecting", "open"}
    /\ \A s \in Socks : w.socks[s] \in {"none", "CLOSED"}

\* C27: after an unclean close, an error or a connection timeout of the
\* current socket the page is never left in Disconnected, Error or
\* Connecting with nothing pending that reconnects it and without having
\* reported that the attempts are used up.
C27_FaultRecoveredOrSurfaced ==
    \A a \in Apps :
        (/\ app[a].fault
         /\ app[a].started
         /\ ~app[a].offline
         /\ ~app[a].hidden
         /\ app[a].state \in {AppState.DISCONNECTED, AppState.ERROR,
                               AppState.CONNECTING})
           => \/ ~NoReconnectPending(app[a])
              \/ app[a].surfaced

\* C30: every connection attempt a step schedules after a failure is due
\* after min(1000 * 2^attempts, 30000) ms plus a jitter below 1000 ms.
C30_RetryAfterBackoffDelay ==
    \A a \in Apps : \A d \in app[a].delays :
        d - Min(1000 * 2^(app[a].reconnectAttempts), 30000) \in 0..999

\* The entries of a queue that are at most maxAge old, in order.
NotExpired(q) == SelectSeq(q, LAMBDA item : item.age <= maxAge)

\* C31: a send appends the message with its enqueue time exactly when the
\* socket is not open and the message is no heartbeat; a sweep retries the
\* entries that have not expired in enqueue order, removes them when the
\* socket takes them, and keeps them in order and with their enqueue times
\* when it does not.
C31_BufferContract ==
    [][\A a \in Apps :
         LET q    == app[a].messageQueue
             open == app[a].socket # NULL /\ app[a].socks[app[a].socket] = "OPEN"
         IN /\ app'[a].ev.op = "send"
                 => app'[a].messageQueue =
                       IF ~open /\ app'[a].ev.message.type \notin {"ping", "pong"}
                       THEN Append(q, [message |-> app'[a].ev.message, age |-> 0])
                       ELSE q
            /\ (app'[a].ev.op = "sweep" /\ open)
                 => /\ app'[a].messageQueue = <<>>
                    /\ [i \in 1..Len(app'[a].out) |-> app'[a].out[i].msg]
                          = [i \in 1..Len(NotExpired(q)) |-> NotExpired(q)[i].message]
            /\ (app'[a].ev.op = "sweep" /\ ~open)
                 => /\ app'[a].messageQueue = NotExpired(q)
                    /\ app'[a].out = <<>>]_allvars

\* A heartbeat was passed to sendSocketMessage with the socket gone and an
\* entry already queued.
C31_Witness ==
    /\ app[TheApp].ev.op = "send"
    /\ app[TheApp].ev.message.type = "ping"
    /\ ~SocketOpen(app[TheApp])
    /\ Len(app[TheApp].messageQueue) = 1

\* C35: while the page's current socket is connecting, the 10 s connection
\* timeout armed for it is pending.
C35_ConnectTimeoutArmed ==
    \A a \in Apps :
        (app[a].socket # NULL /\ app[a].socks[app[a].socket] = "CONNECTING")
           => app[a].connectionTimeout = app[a].socket

\* C36: the close event of a data channel that cleanupWebRTC closed does not
\* rematch the page: a session in Chatting keeps its state and its peer
\* connection, and nothing is sent.
C36_LateCloseNoRematch ==
    [][\A a \in Apps :
         (/\ app'[a].ev.op = "staleDcClose"
          /\ app[a].state = AppState.CHATTING
          /\ app[a].peerConnection)
            => /\ app'[a].state = AppState.CHATTING
               /\ app'[a].peerConnection
               /\ app'[a].dataChannel = app[a].dataChannel
               /\ app'[a].out = <<>>]_allvars

\* The signal frames a queue holds.
QueuedSignals(q) == SelectSeq(q, LAMBDA item : item.message.type = "signal")

\* C37: the queue holds no signal frame of a session that has ended: when a
\* matched frame starts the next session, no signal frame is queued.
C37_NoSignalOfEndedSession ==
    [][\A a \in Apps :
         app'[a].ev.op = "matched" => QueuedSignals(app[a].messageQueue) = <<>>]_allvars

\* ============================================================ whole system
\* Pages and relay together.  Socket s of a page and socket s of the relay are
\* the two ends of one WebSocket connection; up[s] and down[s] hold the frames
\* in transit.  The peer-to-peer layer is the pages' environment: a data
\* channel opens only while another page holds a peer connection, and reports
\* its close once no other page does.

\* A page starts handling an event of its own (user, timer, data channel)
\* only while fewer frames than this are in transit; frames in transit are
\* always handled.
MaxInFlight == 2

\* The two pages of the disconnect scenario: Y's connection breaks.
PageX == 1
PageY == 2

RECURSIVE SumLen(_, _)
SumLen(q, n) == IF n = 0 THEN 0 ELSE Len(q[n]) + SumLen(q, n - 1)

InFlight == SumLen(up, NumConns) + SumLen(down, NumConns)

\* The frames the page passed to socket.send in this step enter the uplink of
\* their socket; what is sent into a broken connection is lost.
Uplink(a) ==
    LET o == app'[a].out IN
    up' = IF o = <<>> \/ readyState[o[1].sock] # "OPEN" THEN up
          ELSE [up EXCEPT ![o[1].sock] = @ \o [i \in 1..Len(o) |-> o[i].msg]]

\* The frames the relay passed to ws.send in this step enter the downlinks.
\* What it sends to a connection of no tracked page is not followed.
Downlink ==
    down' = [s \in Conns |->
               IF s \in Socks
               THEN down[s] \o [i \in 1..Len(SelectSeq(sent', LAMBDA f : f.to = s)) |->
                                   SelectSeq(sent', LAMBDA f : f.to = s)[i].msg]
               ELSE <<>>]

\* The relay's history variables when the latest step was a page's.
RelayQuiet ==
    /\ sent' = <<>>
    /\ last' = Event("none", NULL, "", "none")

\* The pages' history fields when the latest step was the relay's.
PagesQuiet == app' = [b \in Apps |-> Quiet(app[b])]

\* The rest of a step in which page a handled an event of its own.
PageStep(a) ==
    /\ InFlight < MaxInFlight
    /\ Uplink(a)
    /\ RelayQuiet
    /\ UNCHANGED <<clients, waitingUser, readyState, down>>

\* The relay accepts the connection a page is opening.
SysAccept(s) ==
    /\ \E a \in Apps : app[a].socks[s] = "CONNECTING"
    /\ Connection(s, TRUE)
    /\ PagesQuiet
    /\ UNCHANGED <<up, down>>

\* The page learns that its connection is established.
SysOpen(a, s) ==
    /\ readyState[s] = "OPEN"
    /\ SockOpen(a, s)
    /\ Uplink(a)
    /\ RelayQuiet
    /\ UNCHANGED <<clients, waitingUser, readyState, down>>

\* The relay's message handler takes the next frame of a connection.
SysRelay(s) ==
    /\ up[s] # <<>>
    /\ LET m == Head(up[s]) IN
          CASE m.type = "join" -> MsgJoin(s, m.name)
            [] m.type = "signal" -> MsgSignal(s, m.signal.type)
            [] m.type = "connected" -> MsgConnected(s)
            [] OTHER -> MsgOther(s)
    /\ up' = [up EXCEPT ![s] = Tail(@)]
    /\ Downlink
    /\ PagesQuiet

\* The page's message listener takes the next frame of a connection.
SysDeliver(a, s, rtcOk) ==
    /\ down[s] # <<>>
    /\ SockMessage(a, s, Head(down[s]), rtcOk)
    /\ down' = [down EXCEPT ![s] = Tail(@)]
    /\ Uplink(a)
    /\ RelayQuiet
    /\ UNCHANGED <<clients, waitingUser, readyState>>

\* The responder's data channel arrives once the initiator has created it.
SysDataChannelArrives(a) ==
    /\ \E b \in Apps \ {a} : app[b].dataChannel \in {"connecting", "open"}
    /\ DataChannelArrives(a)
    /\ PageStep(a)

\* Some other page holds a peer connection: the far end of a negotiation.
PeerPresent(a) == \E b \in Apps \ {a} : app[b].peerConnection

SysDcOpen(a) ==
    /\ PeerPresent(a)
    /\ DcOpen(a)
    /\ PageStep(a)

SysDcClose(a) ==
    /\ ~PeerPresent(a)
    /\ DcClose(a)
    /\ PageStep(a)

\* Pages and relay: each step is a handler of one of them.
NextSys ==
    \/ \E a \in Apps : handleStart(a) /\ PageStep(a)
    \/ \E s \in Socks : SysAccept(s)
    \/ \E a \in Apps, s \in Socks : SysOpen(a, s)
    \/ \E s \in Socks : SysRelay(s)
    \/ \E a \in Apps, s \in Socks, k \in BOOLEAN : SysDeliver(a, s, k)
    \/ \E a \in Apps : IceTimeout(a) /\ PageStep(a)
    \/ \E a \in Apps : SysDataChannelArrives(a)
    \/ \E a \in Apps : SysDcOpen(a)
    \/ \E a \in Apps : SysDcClose(a)
    \/ \E a \in Apps : Background(a) /\ PageStep(a)

SpecSys == InitClient /\ [][NextSys]_allvars

\* ------------------------------------------- the system with a disconnect
\* The connection of page Y breaks: the relay's end leaves OPEN (server.js
\* sees readyState change before its close event) and the frames in transit
\* on it are lost.
SysTransportClosing ==
    /\ app[PageY].socket # NULL
    /\ TransportClosing(app[PageY].socket)
    /\ up' = [up EXCEPT ![app[PageY].socket] = <<>>]
    /\ down' = [down EXCEPT ![app[PageY].socket] = <<>>]
    /\ PagesQuiet

\* The relay's close event.
SysOnClose(s) ==
    /\ readyState[s] = "CLOSING"
    /\ OnClose(s)
    /\ Downlink
    /\ PagesQuiet
    /\ UNCHANGED up

\* A client that is none of the tracked pages connects to the relay ...
SysStranger(s) ==
    /\ InFlight < MaxInFlight
    /\ Connection(s, TRUE)
    /\ PagesQuiet
    /\ UNCHANGED <<up, down>>

\* ... and asks for a partner, once.
SysStrangerJoins(s) ==
    /\ InFlight < MaxInFlight
    /\ s \in DOMAIN clients
    /\ clients[s].state = STATES.IDLE
    /\ MsgJoin(s, "")
    /\ Downlink
    /\ PagesQuiet
    /\ UNCHANGED up

NextDisconnect ==
    \/ \E a \in Apps : handleStart(a) /\ PageStep(a)
    \/ \E s \in Socks : SysAccept(s)
    \/ \E a \in Apps, s \in Socks : SysOpen(a, s)
    \/ \E s \in Socks : SysRelay(s)
    \/ \E a \in Apps, s \in Socks, k \in BOOLEAN : SysDeliver(a, s, k)
    \/ \E a \in Apps : SysDataChannelArrives(a)
    \/ \E a \in Apps : SysDcOpen(a)
    \/ \E a \in Apps : SysDcClose(a)
    \/ \E s \in Conns \ Socks : SysStranger(s)
    \/ \E s \in Conns \ Socks : SysStrangerJoins(s)
    \/ SysTransportClosing
    \/ \E s \in Socks : SysOnClose(s)

\* Both event loops handle what is queued for them: the relay every frame and
\* every close event it received, a page every frame it received.
Fairness ==
    /\ \A s \in Socks : WF_allvars(SysRelay(s))
    /\ \A s \in Socks : WF_allvars(SysOnClose(s))
    /\ \A a \in Apps, s \in Socks : WF_allvars(\E k \in BOOLEAN : SysDeliver(a, s, k))

SpecDisconnect == InitClient /\ [][NextDisconnect]_allvars /\ Fairness

\* ------------------------------------------------------ system properties

\* No frame in transit, no timer of a page pending, every page connected with
\* both ends of its connection open, and no data channel event due.
Quiescent ==
    /\ InFlight = 0
    /\ \A a \in Apps :
          /\ app[a].connectionTimeout = NULL
          /\ ~app[a].iceFailTimer
          /\ app[a].closeRetry = 0
          /\ app[a].errorRetry = 0
          /\ SocketOpen(app[a])
          /\ Receiving(app[a].socket)
          /\ app[a].dataChannel = "connecting" => ~PeerPresent(a)
          /\ app[a].dataChannel \in {"connecting", "open"} => PeerPresent(a)
          /\ (app[a].peerConnection /\ app[a].dataChannel = "none")
             => \A b \in Apps \ {a} : app[b].dataChannel \notin {"connecting", "open"}

\* The relay holds the connection of page a in Searching.
RelaySearching(a) == clients[app[a].socket].state = STATES.SEARCHING

\* The relay holds the connection of page a in Connecting or Connected,
\* reciprocally linked to the connection of a page that is in Chatting.
RelayChatting(a) ==
    LET s == app[a].socket
        p == clients[s].partner
    IN /\ clients[s].state \in {STATES.CONNECTING, STATES.CONNECTED}
       /\ p # NULL
       /\ p \in DOMAIN clients
       /\ clients[p].partner = s
       /\ \E b \in Apps \ {a} : app[b].socket = p /\ app[b].state = AppState.CHATTING

\* Claim C14: in every quiescent state a page is in Searching iff the relay
\* holds its connection in Searching, and in Chatting iff the relay holds its
\* connection in Connecting or Connected, reciprocally linked to the
\* connection of a page that is in Chatting too.
C14_ClientRelayConsistent ==
    Quiescent
    => \A a \in Apps :
          /\ app[a].state = AppState.SEARCHING <=> RelaySearching(a)
          /\ app[a].state = AppState.CHATTING <=> RelayChatting(a)

\* The relay holds connection s in one of the two states of a pair.
InPair(s) == clients[s].state \in {STATES.CONNECTING, STATES.CONNECTED}

\* Pages X and Y are paired and chatting: both in Chatting, their connections
\* held as a pair by the relay, X's connection open at both ends.
PairedChatting ==
    LET x == app[PageX].socket
        y == app[PageY].socket
    IN /\ app[PageX].state = AppState.CHATTING
       /\ app[PageY].state = AppState.CHATTING
       /\ SocketOpen(app[PageX])
       /\ Receiving(x)
       /\ y \in DOMAIN clients
       /\ clients[x].partner = y /\ InPair(x)
       /\ clients[y].partner = x /\ InPair(y)

\* ... and the connection of Y has just broken.
TransportOfYCloses == PairedChatting /\ readyState[app[PageY].socket] = "CLOSING"

\* Page X handles partner-left: it is in Searching and has sent join.
XRematches ==
    /\ app[PageX].ev.op = "partner-left"
    /\ app[PageX].state = AppState.SEARCHING
    /\ app[PageX].out = <<Frame(app[PageX].socket, Join(app[PageX]), FALSE, 0)>>

\* The relay holds X in Searching as the slot occupant, or paired with
\* another registered connection, and X's entry does not refer to a
\* connection that has left the registry.
XSearchingOrPaired ==
    LET x == app[PageX].socket IN
    /\ x \in DOMAIN clients
    /\ \/ clients[x].state = STATES.SEARCHING /\ waitingUser = x
       \/ /\ clients[x].state \in {STATES.CONNECTING, STATES.CONNECTED}
          /\ clients[x].partner \in DOMAIN clients
    /\ clients[x].partner # NULL => clients[x].partner \in DOMAIN clients

====
